---- MODULE Spec2Model ----
(***************************************************************************)
(* Model of backend/src/services/segmentService.ts (SegmentService).       *)
(*                                                                         *)
(* The segment hierarchy (project group -> project -> subproject) is kept  *)
(* in `segments`, the committed table.  A service call runs as a sequence  *)
(* of steps, one per `await` of the method; `pc` is the await the call is  *)
(* suspended at.  The repository and the transaction manager are           *)
(* collaborators that live outside the service file: they are modelled     *)
(* from their documented contract (a transaction buffers the writes made   *)
(* through its handle and publishes them at commit).                       *)
(***************************************************************************)
EXTENDS Integers, Sequences, FiniteSets, TLC

VARIABLES
  segments,   \* the committed segment table; a segment's id is its index
  txn,        \* the transaction of the running call and its pending writes
  pc,         \* the await the running call is suspended at
  op,         \* the method that is running
  data,       \* its data argument
  target,     \* update: its id argument
  segment,    \* update: the segment read at line 27
  pre,        \* the committed table when the call was invoked
  log,        \* the repository writes the call has issued, in order
  error,      \* the error caught by the catch block
  thrown,     \* the error the call ended with
  observed,   \* what a concurrent reader last read during the call
  calls,      \* number of calls made so far
  customActivityTypes,  \* the active segment's stored blob: platform -> typeKey -> settings
  activityChannels,     \* the active segment's stored blob: platform -> channel list
  acs         \* per client, its running activity-configuration call

vars == <<segments, txn, pc, op, data, target, segment, pre, log,
          error, thrown, observed, calls, customActivityTypes, activityChannels, acs>>

hierarchyVars == <<segments, txn, pc, op, data, target, segment, pre, log,
                   error, thrown, observed>>
activityVars == <<customActivityTypes, activityChannels, acs>>

(***************************************************************************)
(* Bounds and input domains                                                *)
(***************************************************************************)
MaxCalls == 3
MaxSegments == 5

None == "none"   \* an absent (undefined / null) field
Slugs == {"a", "b"}
Names == {"A", "B"}

NameFor(s) == IF s = "a" THEN "A" ELSE IF s = "b" THEN "B" ELSE None

\* SegmentData as passed to the create methods.  Callers pass the display
\* name that belongs to each slug they name.
SegmentDataInputs ==
  { [slug |-> s, name |-> NameFor(s),
     parentSlug |-> p, parentName |-> NameFor(p),
     grandparentSlug |-> g, grandparentName |-> NameFor(g)] :
       s \in Slugs, p \in Slugs \cup {None}, g \in Slugs \cup {None} }

\* SegmentUpdateData: name and slug are both optional.
SegmentUpdateInputs == [name : Names \cup {None}, slug : Slugs \cup {None}]

\* Activity-configuration inputs
Clients == {"c1", "c2"}
TypeInputs == {"Star", "star", "fork", ""}
\* PlatformType.OTHER, the default platform of createActivityType (line 161)
PlatformOther == "other"
PlatformInputs == {"GitHub", PlatformOther}
KeyInputs == {"star", "fork"}
ChannelInputs == {"x", "y", ""}
ChannelPlatformInputs == {"github", "other"}

NoData == [slug |-> None, name |-> None, parentSlug |-> None, parentName |-> None,
           grandparentSlug |-> None, grandparentName |-> None]

NoTxn == [opened |-> FALSE, committed |-> FALSE, rolledBack |-> FALSE, writes |-> <<>>]

NoError == <<>>
NotRead == [read |-> FALSE, rows |-> <<>>, pending |-> 0]

\* JavaScript truthiness of an optional string field
Truthy(x) == x # None /\ x # ""

(***************************************************************************)
(* Segment levels                                                          *)
(***************************************************************************)
isProjectGroup(s) == s.parentSlug = None /\ s.grandparentSlug = None
isProject(s) == s.parentSlug # None /\ s.grandparentSlug = None
isSubproject(s) == s.parentSlug # None /\ s.grandparentSlug # None

Ids(store) == 1..Len(store)

(***************************************************************************)
(* The segment repository (contract of SegmentRepository)                  *)
(***************************************************************************)
\* Two rows are the same sibling: same level, same slug, same parent chain.
SameKey(r, s) ==
  /\ r.slug = s.slug
  /\ r.parentSlug = s.parentSlug
  /\ r.grandparentSlug = s.grandparentSlug

\* The storage layer's uniqueness constraint on siblings.
Unique(store) ==
  \A i, j \in Ids(store) : SameKey(store[i], store[j]) => i = j

\* A repository write statement: create / update / updateChildrenBulk.
CreateStmt(row) ==
  [call |-> "create", id |-> 0, row |-> row, name |-> None, slug |-> None, kids |-> {}]
UpdateStmt(id, d) ==
  [call |-> "update", id |-> id, row |-> NoData, name |-> d.name, slug |-> d.slug, kids |-> {}]
BulkStmt(id, d, kids) ==
  [call |-> "updateChildrenBulk", id |-> id, row |-> NoData, name |-> d.name,
   slug |-> d.slug, kids |-> kids]

\* update(id, data): sets the fields that data carries.
RepoUpdate(store, id, name, slug) ==
  [store EXCEPT ![id] = [@ EXCEPT !.name = IF name # None THEN name ELSE @,
                                  !.slug = IF slug # None THEN slug ELSE @]]

\* updateChildrenBulk(parentId, {name, slug}): every direct child takes the
\* parent's new name / slug as its parentName / parentSlug.
RepoUpdateChildrenBulk(store, kids, name, slug) ==
  [i \in Ids(store) |->
     IF i \in kids
     THEN [store[i] EXCEPT !.parentName = IF name # None THEN name ELSE @,
                           !.parentSlug = IF slug # None THEN slug ELSE @]
     ELSE store[i]]

\* The direct children of segment `seg` in `store`: the rows one level below
\* that name it as their parent.
ChildrenOf(store, seg) ==
  IF isProjectGroup(seg)
  THEN {i \in Ids(store) : isProject(store[i]) /\ store[i].parentSlug = seg.slug}
  ELSE IF isProject(seg)
  THEN {i \in Ids(store) : /\ isSubproject(store[i])
                           /\ store[i].parentSlug = seg.slug
                           /\ store[i].grandparentSlug = seg.parentSlug}
  ELSE {}

ApplyStmt(store, w) ==
  IF w.call = "create" THEN Append(store, w.row)
  ELSE IF w.call = "update" THEN RepoUpdate(store, w.id, w.name, w.slug)
  ELSE RepoUpdateChildrenBulk(store, w.kids, w.name, w.slug)

RECURSIVE ApplyAll(_, _)
ApplyAll(store, ws) ==
  IF ws = <<>> THEN store ELSE ApplyAll(ApplyStmt(store, Head(ws)), Tail(ws))

\* The transaction manager (contract of SequelizeRepository): a transaction
\* collects the writes made through its handle; commit publishes them
\* together, rollback discards them.
createTransaction == [NoTxn EXCEPT !.opened = TRUE]
commitTransaction(t) == [t EXCEPT !.committed = TRUE, !.writes = <<>>]
rollbackTransaction(t) == [t EXCEPT !.rolledBack = TRUE, !.writes = <<>>]

\* findBySlug(slug, SegmentLevel.PROJECT_GROUP): is there such a group?
findBySlugProjectGroup(store, slug) ==
  \E i \in Ids(store) : isProjectGroup(store[i]) /\ store[i].slug = slug

(***************************************************************************)
(* SegmentService: what each method passes to the repository              *)
(***************************************************************************)
\* Mutation: every method builds its repository without the transaction.
Handle_AlwaysDirect(method) == "direct"

\* Mutation: every method writes through a transactional handle, also
\* createSubproject, which opens and commits none.
Handle_AlwaysTxn(method) == "txn"

\* Which repository handle a method writes through: update,
\* createProjectGroup and createProject build it with their transaction
\* (lines 32, 60, 97); createSubproject builds it without one (line 136).
Handle(method) == IF method = "createSubproject" THEN "direct" ELSE "txn"

\* createProjectGroup, line 53
GroupRejected(d) == Truthy(d.parentSlug) \/ Truthy(d.grandparentSlug)

\* Mutation: the project counterpart takes the slug as its parent's name.
GroupProjectCounterpart_SlugAsName(d) ==
  [d EXCEPT !.parentSlug = d.slug, !.parentName = d.slug]

\* createProjectGroup, line 66: the project counterpart
GroupProjectCounterpart(d) ==
  [d EXCEPT !.parentSlug = d.slug, !.parentName = d.name]

\* createProjectGroup, lines 69-75: the subproject counterpart
GroupSubprojectCounterpart(d) ==
  [d EXCEPT !.parentSlug = d.slug, !.grandparentSlug = d.slug,
            !.parentName = d.name, !.grandparentName = d.name]

\* createProject, lines 88-94: the validation error, if any
ProjectRejection(d) ==
  IF Truthy(d.grandparentSlug)
  THEN <<"Error", "Projects can't have grandparent segments.">>
  ELSE IF ~Truthy(d.parentSlug)
  THEN <<"Error", "Missing parentSlug. Projects must belong to a project group.">>
  ELSE NoError

\* Mutation: the counterpart built as createProjectGroup builds it, with the
\* project itself as grandparent.
ProjectSubprojectCounterpart_OwnSlug(d) ==
  [d EXCEPT !.parentSlug = d.slug, !.grandparentSlug = d.slug,
            !.name = d.name, !.parentName = d.name]

\* createProject, lines 110-116: the subproject counterpart
ProjectSubprojectCounterpart(d) ==
  [d EXCEPT !.parentSlug = d.slug, !.grandparentSlug = d.parentSlug,
            !.name = d.name, !.parentName = d.name]

\* Mutation: only the parent is required.
SubprojectRejection_ParentOnly(d) ==
  IF ~Truthy(d.parentSlug)
  THEN <<"Error", "Missing parentSlug. Subprojects must belong to a project.">>
  ELSE <<>>

\* createSubproject, lines 128-134: the validation error, if any
SubprojectRejection(d) ==
  IF ~Truthy(d.parentSlug)
  THEN <<"Error", "Missing parentSlug. Subprojects must belong to a project.">>
  ELSE IF ~Truthy(d.grandparentSlug)
  THEN <<"Error", "Missing grandparentSlug. Subprojects must belong to a project group.">>
  ELSE NoError

\* Mutation: only a new name goes on to the children.
PropagatesToChildren_NameOnly(seg, d) ==
  ~isSubproject(seg) /\ Truthy(d.name)

\* update, line 38: does the rename go on to the children?
PropagatesToChildren(seg, d) ==
  ~isSubproject(seg) /\ (Truthy(d.name) \/ Truthy(d.slug))

\* The error a catch block re-throws (lines 47, 82, 123)
Rethrown(e) == e

(***************************************************************************)
(* Activity configuration: the nested blob and its flat projection         *)
(***************************************************************************)
\* String.prototype.toLowerCase on the strings of the input domains
toLowerCase(s) ==
  IF s = "Star" THEN "star"
  ELSE IF s = "GitHub" THEN "github"
  ELSE s

EmptyMap == [k \in {} |-> None]

Put(f, k, v) == [x \in DOMAIN f \cup {k} |-> IF x = k THEN v ELSE f[x]]
Remove(f, k) == [x \in DOMAIN f \ {k} |-> f[x]]

\* The settings object built at lines 186-193 and 254-261
NewSettings(type) ==
  [display |-> [default |-> type, short |-> type, channel |-> ""],
   isContribution |-> FALSE]

\* custom is the sequence of its platforms in key (insertion) order, each
\* with its map typeKey -> settings.
HasPlatform(custom, p) == \E i \in 1..Len(custom) : custom[i].platform = p

TypesOf(custom, p) ==
  IF HasPlatform(custom, p)
  THEN custom[CHOOSE i \in 1..Len(custom) : custom[i].platform = p].types
  ELSE EmptyMap

\* lines 177-179: custom[platformKey] = {} when it has no map yet
WithPlatform(custom, p) ==
  IF HasPlatform(custom, p) THEN custom
  ELSE Append(custom, [platform |-> p, types |-> EmptyMap])

\* Mutation: the existence test never finds the key.
TypeExists_Never(custom, p, k) == FALSE

\* line 182: custom[platformKey][typeKey] is already there
TypeExists(custom, p, k) == k \in DOMAIN TypesOf(custom, p)

\* custom[p][k] = s
SetType(custom, p, k, s) ==
  [i \in 1..Len(custom) |->
     IF custom[i].platform = p
     THEN [custom[i] EXCEPT !.types = Put(@, k, s)]
     ELSE custom[i]]

\* Mutation: the platform's whole map is emptied.
DeleteType_WholePlatform(custom, p, k) ==
  [i \in 1..Len(custom) |->
     IF custom[i].platform = p
     THEN [custom[i] EXCEPT !.types = EmptyMap]
     ELSE custom[i]]

\* delete custom[p][k]
DeleteType(custom, p, k) ==
  [i \in 1..Len(custom) |->
     IF custom[i].platform = p
     THEN [custom[i] EXCEPT !.types = Remove(@, k)]
     ELSE custom[i]]

\* lines 222-228: one platform's types, each extended with the platform
unnestWithPlatform(entry) ==
  [k \in DOMAIN entry.types |->
     [display |-> entry.types[k].display,
      isContribution |-> entry.types[k].isContribution,
      platform |-> entry.platform]]

\* Mutation: the spread is reversed, the earlier platform keeps the key.
Spread_KeepFirst(acc, more) ==
  [k \in DOMAIN acc \cup DOMAIN more |-> IF k \in DOMAIN acc THEN acc[k] ELSE more[k]]

\* line 230: acc = { ...acc, ...unnestWithPlatform }
Spread(acc, more) ==
  [k \in DOMAIN acc \cup DOMAIN more |-> IF k \in DOMAIN more THEN more[k] ELSE acc[k]]

\* unnestActivityTypes, lines 218-233: a reduce over the platforms in order
RECURSIVE unnestFrom(_, _, _)
unnestFrom(custom, i, acc) ==
  IF i > Len(custom) THEN acc
  ELSE unnestFrom(custom, i + 1, Spread(acc, unnestWithPlatform(custom[i])))

\* Mutation: the reduce starts after the first platform.
unnestActivityTypes_SkipFirst(custom) == unnestFrom(custom, 2, EmptyMap)

unnestActivityTypes(custom) == unnestFrom(custom, 1, EmptyMap)

\* Mutation: the channel is appended without the membership test.
UpdatedChannels_AlwaysAppend(channels, platform, channel) ==
  IF platform \in DOMAIN channels
  THEN [channels EXCEPT ![platform] = Append(@, channel)]
  ELSE Put(channels, platform, <<channel>>)

\* updateActivityChannels, lines 307-315: the channel map after the call
UpdatedChannels(channels, platform, channel) ==
  IF platform \in DOMAIN channels
  THEN IF \E i \in 1..Len(channels[platform]) : channels[platform][i] = channel
       THEN channels
       ELSE [channels EXCEPT ![platform] = Append(@, channel)]
  ELSE Put(channels, platform, <<channel>>)

IdleCall ==
  [pc |-> "idle", method |-> None, key |-> None, type |-> None, platform |-> None,
   channel |-> None, readTypes |-> <<>>, readChannels |-> EmptyMap,
   newTypes |-> <<>>, newChannels |-> EmptyMap,
   wrote |-> FALSE, thrown |-> NoError, returnedTypes |-> <<>>,
   returnedChannels |-> EmptyMap, sawWrite |-> FALSE, writeNo |-> 0]

(***************************************************************************)
(* State                                                                   *)
(***************************************************************************)
Init ==
  /\ segments = <<>>
  /\ txn = NoTxn
  /\ pc = "idle"
  /\ op = None
  /\ data = NoData
  /\ target = 0
  /\ segment = NoData
  /\ pre = <<>>
  /\ log = <<>>
  /\ error = NoError
  /\ thrown = NoError
  /\ observed = NotRead
  /\ calls = 0
  /\ customActivityTypes = <<>>
  /\ activityChannels = EmptyMap
  /\ acs = [c \in Clients |-> IdleCall]

\* The table as the running call's repository handle reads it.
View(via) == IF via = "txn" THEN ApplyAll(segments, txn.writes) ELSE segments

RepositoryError(step) == <<"RepositoryError", step>>

\* A method is invoked: common bookkeeping.
Begin(method, d, id) ==
  /\ pc = "idle"
  /\ \A c \in Clients : acs[c].pc = "idle"
  /\ calls < MaxCalls
  /\ calls' = calls + 1
  /\ op' = method
  /\ data' = d
  /\ target' = id
  /\ pre' = segments
  /\ log' = <<>>
  /\ error' = NoError
  /\ observed' = NotRead
  /\ segment' = NoData
  /\ UNCHANGED <<segments, activityVars>>

\* The method throws out of the call (no catch block involved).
Throw(e) ==
  /\ pc' = "done"
  /\ thrown' = e

\* An awaited call rejects with e: inside a try block the catch block takes
\* it, elsewhere it leaves the method.
Fail(e, inTry) ==
  IF inTry
  THEN pc' = "catch" /\ error' = e /\ thrown' = thrown
  ELSE pc' = "done" /\ thrown' = e /\ error' = error

\* A write statement is issued through the method's repository handle.  It
\* takes effect unless the storage layer refuses it (`accepted`).
Write(stmt, accepted, next, inTry) ==
  /\ log' = Append(log, [stmt |-> stmt, via |-> Handle(op), ok |-> accepted])
  /\ IF accepted
     THEN /\ pc' = next
          /\ UNCHANGED <<error, thrown>>
          /\ IF Handle(op) = "txn"
             THEN /\ txn' = [txn EXCEPT !.writes = Append(@, stmt)]
                  /\ segments' = segments
             ELSE /\ segments' = ApplyStmt(segments, stmt)
                  /\ txn' = txn
     ELSE /\ Fail(RepositoryError(pc), inTry)
          /\ UNCHANGED <<segments, txn>>
  /\ UNCHANGED <<op, data, target, segment, pre, observed, calls, activityVars>>

\* create(row) through the method's handle
Create(row, next, inTry) ==
  \E ok \in BOOLEAN :
    Write(CreateStmt(row), ok /\ Unique(Append(View(Handle(op)), row)), next, inTry)

\* commitTransaction (lines 42, 77, 118): the pending writes are published
\* together.
Commit(next) ==
  /\ \E ok \in BOOLEAN :
       IF ok
       THEN /\ segments' = ApplyAll(segments, txn.writes)
            /\ txn' = commitTransaction(txn)
            /\ pc' = next
            /\ UNCHANGED <<error, thrown>>
       ELSE /\ Fail(RepositoryError(pc), TRUE)
            /\ UNCHANGED <<segments, txn>>
  /\ UNCHANGED <<op, data, target, segment, pre, log, observed, calls, activityVars>>

\* The closing findById of a method (lines 44, 79, 120, 140)
Reread(inTry) ==
  /\ \E ok \in BOOLEAN :
       IF ok
       THEN pc' = "done" /\ UNCHANGED <<error, thrown>>
       ELSE Fail(RepositoryError(pc), inTry)
  /\ UNCHANGED <<segments, txn, op, data, target, segment, pre, log, observed, calls, activityVars>>

(***************************************************************************)
(* createProjectGroup, lines 51-84                                         *)
(***************************************************************************)
CreateProjectGroup(d) ==
  /\ Len(segments) + 3 <= MaxSegments
  /\ Begin("createProjectGroup", d, 0)
  /\ IF GroupRejected(d)
     THEN /\ Throw(<<"Error", "Project groups can't have parent or grandparent segments.">>)
          /\ txn' = NoTxn
     ELSE /\ txn' = createTransaction
          /\ pc' = "cpg_group"
          /\ thrown' = NoError

CpgGroup ==
  /\ pc = "cpg_group"
  /\ Create(data, "cpg_project", TRUE)

CpgProject ==
  /\ pc = "cpg_project"
  /\ Create(GroupProjectCounterpart(data), "cpg_subproject", TRUE)

CpgSubproject ==
  /\ pc = "cpg_subproject"
  /\ Create(GroupSubprojectCounterpart(data), "cpg_commit", TRUE)

CpgCommit ==
  /\ pc = "cpg_commit"
  /\ Commit("cpg_findById")

CpgFindById ==
  /\ pc = "cpg_findById"
  /\ Reread(TRUE)

(***************************************************************************)
(* createProject, lines 86-125                                             *)
(***************************************************************************)
CreateProject(d) ==
  /\ Len(segments) + 2 <= MaxSegments
  /\ Begin("createProject", d, 0)
  /\ IF ProjectRejection(d) # NoError
     THEN /\ Throw(ProjectRejection(d))
          /\ txn' = NoTxn
     ELSE /\ txn' = createTransaction
          /\ pc' = "cp_findBySlug"
          /\ thrown' = NoError

\* lines 99-103: outside the try block
CpFindBySlug ==
  /\ pc = "cp_findBySlug"
  /\ \E ok \in BOOLEAN :
       IF ~ok
       THEN Fail(RepositoryError(pc), FALSE)
       ELSE IF ~findBySlugProjectGroup(View(Handle(op)), data.parentSlug)
       THEN /\ Throw(<<"Error", "Project group does not exist.", data.parentName>>)
            /\ error' = error
       ELSE /\ pc' = "cp_project"
            /\ UNCHANGED <<error, thrown>>
  /\ UNCHANGED <<segments, txn, op, data, target, segment, pre, log, observed, calls, activityVars>>

CpProject ==
  /\ pc = "cp_project"
  /\ Create(data, "cp_subproject", TRUE)

CpSubproject ==
  /\ pc = "cp_subproject"
  /\ Create(ProjectSubprojectCounterpart(data), "cp_commit", TRUE)

CpCommit ==
  /\ pc = "cp_commit"
  /\ Commit("cp_findById")

CpFindById ==
  /\ pc = "cp_findById"
  /\ Reread(TRUE)

(***************************************************************************)
(* createSubproject, lines 127-141                                         *)
(***************************************************************************)
CreateSubproject(d) ==
  /\ Len(segments) + 1 <= MaxSegments
  /\ Begin("createSubproject", d, 0)
  /\ txn' = NoTxn
  /\ IF SubprojectRejection(d) # NoError
     THEN Throw(SubprojectRejection(d))
     ELSE pc' = "csp_create" /\ thrown' = NoError

CspCreate ==
  /\ pc = "csp_create"
  /\ Create(data, "csp_findById", FALSE)

CspFindById ==
  /\ pc = "csp_findById"
  /\ Reread(FALSE)

(***************************************************************************)
(* update, lines 26-49                                                     *)
(***************************************************************************)
Update(id, d) ==
  /\ id \in Ids(segments)
  /\ Begin("update", [NoData EXCEPT !.name = d.name, !.slug = d.slug], id)
  /\ txn' = NoTxn
  /\ pc' = "upd_findById"
  /\ thrown' = NoError

\* lines 27-29
UpdFindById ==
  /\ pc = "upd_findById"
  /\ \E ok \in BOOLEAN :
       IF ok
       THEN /\ segment' = segments[target]
            /\ txn' = createTransaction
            /\ pc' = "upd_update"
            /\ UNCHANGED <<error, thrown>>
       ELSE /\ Fail(RepositoryError(pc), FALSE)
            /\ UNCHANGED <<segment, txn>>
  /\ UNCHANGED <<segments, op, data, target, pre, log, observed, calls, activityVars>>

\* line 35, and the test of line 38
UpdUpdate ==
  /\ pc = "upd_update"
  /\ \E ok \in BOOLEAN :
       Write(UpdateStmt(target, data),
             ok /\ Unique(RepoUpdate(View(Handle(op)), target, data.name, data.slug)),
             IF PropagatesToChildren(segment, data) THEN "upd_children" ELSE "upd_commit",
             TRUE)

\* line 39
UpdChildren ==
  /\ pc = "upd_children"
  /\ LET kids == ChildrenOf(View(Handle(op)), segment) IN
     \E ok \in BOOLEAN :
       Write(BulkStmt(target, data, kids),
             ok /\ Unique(RepoUpdateChildrenBulk(View(Handle(op)), kids, data.name, data.slug)),
             "upd_commit", TRUE)

UpdCommit ==
  /\ pc = "upd_commit"
  /\ Commit("upd_findById2")

\* line 44
UpdFindById2 ==
  /\ pc = "upd_findById2"
  /\ Reread(TRUE)

\* Mutation: the catch block re-throws without rolling back.
Catch_NoRollback ==
  /\ pc = "catch"
  /\ thrown' = error
  /\ pc' = "done"
  /\ UNCHANGED <<segments, txn, op, data, target, segment, pre, log, error, observed,
                 calls, customActivityTypes, activityChannels, acs>>

(***************************************************************************)
(* The catch blocks (lines 45-48, 80-83, 121-124)                          *)
(***************************************************************************)
Catch ==
  /\ pc = "catch"
  /\ txn' = rollbackTransaction(txn)
  /\ thrown' = Rethrown(error)
  /\ pc' = "done"
  /\ UNCHANGED <<segments, op, data, target, segment, pre, log, error, observed, calls, activityVars>>

\* The call has settled; the service is ready for the next one.
Return ==
  /\ pc = "done"
  /\ pc' = "idle"
  /\ op' = None
  /\ data' = NoData
  /\ target' = 0
  /\ segment' = NoData
  /\ pre' = <<>>
  /\ log' = <<>>
  /\ error' = NoError
  /\ thrown' = NoError
  /\ txn' = NoTxn
  /\ observed' = NotRead
  /\ UNCHANGED <<segments, calls, activityVars>>

\* A concurrent reader (findById / query* on a handle of its own) reads the
\* committed table while the call is in flight.
Reader ==
  /\ pc \notin {"idle"}
  /\ observed' = [read |-> TRUE, rows |-> segments, pending |-> Len(txn.writes)]
  /\ UNCHANGED <<segments, txn, pc, op, data, target, segment, pre, log, error, thrown, calls, activityVars>>

(***************************************************************************)
(* Activity configuration store, lines 159-322                             *)
(***************************************************************************)
\* A client invokes an activity-configuration method: it reads the blobs of
\* the active segment (getActivityTypes / getActivityChannels).
AcsBegin(c) ==
  /\ acs[c].pc = "idle"
  /\ calls < MaxCalls
  /\ calls' = calls + 1
  /\ pc = "idle"
  /\ UNCHANGED <<hierarchyVars, customActivityTypes, activityChannels>>

AcsCall(c, method, key, type, platform, channel) ==
  [IdleCall EXCEPT !.method = method, !.key = key, !.type = type,
                   !.platform = platform, !.channel = channel,
                   !.readTypes = customActivityTypes,
                   !.readChannels = activityChannels,
                   !.returnedTypes = customActivityTypes,
                   !.returnedChannels = activityChannels,
                   !.sawWrite = \E d \in Clients \ {c} : acs[d].wrote]

AcsThrow(call, e) == [call EXCEPT !.pc = "done", !.thrown = e]
AcsReturnUnchanged(call) == [call EXCEPT !.pc = "done"]
AcsGoWriteTypes(call, custom) == [call EXCEPT !.pc = "write", !.newTypes = custom]
AcsGoWriteChannels(call, channels) == [call EXCEPT !.pc = "write", !.newChannels = channels]

\* createActivityType, lines 159-193 (up to the awaited update)
CreateActivityType(c, type, platform) ==
  /\ AcsBegin(c)
  /\ LET call == AcsCall(c, "createActivityType", None, type, platform, None)
         typeKey == toLowerCase(type)
         platformKey == toLowerCase(platform)
         custom == WithPlatform(customActivityTypes, platformKey)
     IN acs' = [acs EXCEPT ![c] =
          IF ~Truthy(type)
          THEN AcsThrow(call, <<"Error400",
                 "settings.activityTypes.errors.typeRequiredWhenCreating">>)
          ELSE IF TypeExists(custom, platformKey, typeKey)
          THEN AcsReturnUnchanged(call)
          ELSE AcsGoWriteTypes(call,
                 SetType(custom, platformKey, typeKey, NewSettings(type)))]

\* updateActivityType, lines 235-261 (up to the awaited update)
UpdateActivityType(c, key, type) ==
  /\ AcsBegin(c)
  /\ LET call == AcsCall(c, "updateActivityType", key, type, None, None)
         activityTypesUnnested == unnestActivityTypes(customActivityTypes)
     IN acs' = [acs EXCEPT ![c] =
          IF ~Truthy(type)
          THEN AcsThrow(call, <<"Error400",
                 "settings.activityTypes.errors.typeRequiredWhenUpdating">>)
          ELSE IF key \notin DOMAIN activityTypesUnnested
          THEN AcsThrow(call, <<"Error400",
                 "settings.activityTypes.errors.notFound", key>>)
          ELSE AcsGoWriteTypes(call,
                 SetType(customActivityTypes, activityTypesUnnested[key].platform,
                         key, NewSettings(type)))]

\* destroyActivityType, lines 270-286 (up to the awaited update)
DestroyActivityType(c, key) ==
  /\ AcsBegin(c)
  /\ LET call == AcsCall(c, "destroyActivityType", key, None, None, None)
         activityTypesUnnested == unnestActivityTypes(customActivityTypes)
     IN acs' = [acs EXCEPT ![c] =
          IF key \in DOMAIN activityTypesUnnested
          THEN AcsGoWriteTypes(call,
                 DeleteType(customActivityTypes, activityTypesUnnested[key].platform, key))
          ELSE AcsReturnUnchanged(call)]

\* updateActivityChannels, lines 295-315 (up to the awaited update)
UpdateActivityChannels(c, platform, channel) ==
  /\ AcsBegin(c)
  /\ LET call == AcsCall(c, "updateActivityChannels", None, None, platform, channel)
     IN acs' = [acs EXCEPT ![c] =
          IF ~Truthy(channel)
          THEN AcsThrow(call, <<"Error400",
                 "settings.activityChannels.errors.typeRequiredWhenCreating">>)
          ELSE AcsGoWriteChannels(call,
                 UpdatedChannels(activityChannels, platform, channel))]

\* The calls in flight that have stored their blob, plus this one.
WriteNo == 1 + Cardinality({d \in Clients : acs[d].wrote})

\* Mutation: a blob computed from a read that is no longer the stored blob
\* is dropped instead of stored.
AcsWrite_KeepFirst(c) ==
  /\ acs[c].pc = "write"
  /\ \E ok \in BOOLEAN :
       IF ~ok
       THEN /\ acs' = [acs EXCEPT ![c] =
                 [@ EXCEPT !.pc = "done", !.thrown = RepositoryError("update")]]
            /\ UNCHANGED <<customActivityTypes, activityChannels>>
       ELSE IF acs[c].method = "updateActivityChannels"
       THEN /\ activityChannels' = IF activityChannels = acs[c].readChannels
                                   THEN acs[c].newChannels ELSE activityChannels
            /\ customActivityTypes' = customActivityTypes
            /\ acs' = [acs EXCEPT ![c] =
                 [@ EXCEPT !.pc = "done", !.wrote = TRUE, !.writeNo = WriteNo,
                           !.returnedChannels = acs[c].newChannels]]
       ELSE /\ customActivityTypes' = IF customActivityTypes = acs[c].readTypes
                                      THEN acs[c].newTypes ELSE customActivityTypes
            /\ activityChannels' = activityChannels
            /\ acs' = [acs EXCEPT ![c] =
                 [@ EXCEPT !.pc = "done", !.wrote = TRUE, !.writeNo = WriteNo,
                           !.returnedTypes = acs[c].newTypes]]
  /\ UNCHANGED <<hierarchyVars, calls>>

\* The awaited repository update (lines 195, 263, 279, 317): the whole blob
\* computed by the call replaces the stored one.
AcsWrite(c) ==
  /\ acs[c].pc = "write"
  /\ \E ok \in BOOLEAN :
       IF ~ok
       THEN /\ acs' = [acs EXCEPT ![c] =
                 [@ EXCEPT !.pc = "done", !.thrown = RepositoryError("update")]]
            /\ UNCHANGED <<customActivityTypes, activityChannels>>
       ELSE IF acs[c].method = "updateActivityChannels"
       THEN /\ activityChannels' = acs[c].newChannels
            /\ customActivityTypes' = customActivityTypes
            /\ acs' = [acs EXCEPT ![c] =
                 [@ EXCEPT !.pc = "done", !.wrote = TRUE, !.writeNo = WriteNo,
                           !.returnedChannels = acs[c].newChannels]]
       ELSE /\ customActivityTypes' = acs[c].newTypes
            /\ activityChannels' = activityChannels
            /\ acs' = [acs EXCEPT ![c] =
                 [@ EXCEPT !.pc = "done", !.wrote = TRUE, !.writeNo = WriteNo,
                           !.returnedTypes = acs[c].newTypes]]
  /\ UNCHANGED <<hierarchyVars, calls>>

AcsReturn(c) ==
  /\ acs[c].pc = "done"
  /\ acs' = [acs EXCEPT ![c] = IdleCall]
  /\ UNCHANGED <<hierarchyVars, calls, customActivityTypes, activityChannels>>

NextHierarchy ==
  \/ \E d \in SegmentDataInputs : CreateProjectGroup(d)
  \/ CpgGroup \/ CpgProject \/ CpgSubproject \/ CpgCommit \/ CpgFindById
  \/ \E d \in SegmentDataInputs : CreateProject(d)
  \/ CpFindBySlug \/ CpProject \/ CpSubproject \/ CpCommit \/ CpFindById
  \/ \E d \in SegmentDataInputs : CreateSubproject(d)
  \/ CspCreate \/ CspFindById
  \/ \E id \in 1..MaxSegments, d \in SegmentUpdateInputs : Update(id, d)
  \/ UpdFindById \/ UpdUpdate \/ UpdChildren \/ UpdCommit \/ UpdFindById2
  \/ Catch
  \/ Return

NextActivity ==
  \/ \E ty \in TypeInputs, pl \in PlatformInputs : CreateActivityType("c1", ty, pl)
  \/ \E k \in KeyInputs, ty \in TypeInputs : UpdateActivityType("c1", k, ty)
  \/ \E k \in KeyInputs : DestroyActivityType("c1", k)
  \/ \E pl \in ChannelPlatformInputs, ch \in ChannelInputs : UpdateActivityChannels("c1", pl, ch)
  \/ AcsWrite("c1")
  \/ AcsReturn("c1")

\* The whole service, one call at a time.
Next == NextHierarchy \/ NextActivity

Spec == Init /\ [][Next]_vars

\* The hierarchy manager alone.
SpecHierarchy == Init /\ [][NextHierarchy]_vars

\* The hierarchy manager with a concurrent reader of the committed table.
SpecReader == Init /\ [][NextHierarchy \/ Reader]_vars

\* The activity configuration store alone.
SpecActivity == Init /\ [][NextActivity]_vars

\* The activity configuration store called by several requests at once: each
\* call reads the blobs when it starts and stores its blob at its await.
NextConcurrent ==
  \E c \in Clients :
    \/ \E ty \in TypeInputs, pl \in PlatformInputs : CreateActivityType(c, ty, pl)
    \/ \E k \in KeyInputs, ty \in TypeInputs : UpdateActivityType(c, k, ty)
    \/ \E k \in KeyInputs : DestroyActivityType(c, k)
    \/ \E pl \in ChannelPlatformInputs, ch \in ChannelInputs : UpdateActivityChannels(c, pl, ch)
    \/ AcsWrite(c)
    \/ AcsReturn(c)

SpecConcurrent == Init /\ [][NextConcurrent]_vars

(***************************************************************************)
(* Properties                                                              *)
(***************************************************************************)
Row(slug, name, parentSlug, parentName, grandparentSlug, grandparentName) ==
  [slug |-> slug, name |-> name, parentSlug |-> parentSlug, parentName |-> parentName,
   grandparentSlug |-> grandparentSlug, grandparentName |-> grandparentName]

\* The statements of the running call that the repository accepted.
RECURSIVE AcceptedStmts(_)
AcceptedStmts(l) ==
  IF l = <<>> THEN <<>>
  ELSE IF Head(l).ok THEN <<Head(l).stmt>> \o AcceptedStmts(Tail(l))
  ELSE AcceptedStmts(Tail(l))

AllCreatesInTxn(n) ==
  /\ Len(log) = n
  /\ \A i \in 1..n : log[i].ok /\ log[i].via = "txn" /\ log[i].stmt.call = "create"

\* C1: once createProjectGroup(data) has committed (data without parentSlug
\* and grandparentSlug, every create accepted), the committed table is the
\* table before the call followed by exactly three new rows, created in this
\* order through the transaction: the group as given, the project
\* counterpart (parentSlug = data.slug, parentName = data.name) and the
\* subproject counterpart (parent and grandparent slug = data.slug, parent
\* and grandparent name = data.name).
C1_GroupCascade ==
  (op = "createProjectGroup" /\ txn.committed) =>
    /\ data.parentSlug = None /\ data.grandparentSlug = None
    /\ AllCreatesInTxn(3)
    /\ log[1].stmt.row = Row(data.slug, data.name, None, None, None, None)
    /\ log[2].stmt.row = Row(data.slug, data.name, data.slug, data.name, None, None)
    /\ log[3].stmt.row =
         Row(data.slug, data.name, data.slug, data.name, data.slug, data.name)
    /\ segments = pre \o <<log[1].stmt.row, log[2].stmt.row, log[3].stmt.row>>

\* C1 witness: a group cascade committed into a table that already had rows.
C1_Witness ==
  /\ op = "createProjectGroup" /\ pc = "done" /\ thrown = NoError
  /\ txn.committed /\ Len(pre) > 0 /\ Len(segments) = Len(pre) + 3

WriteSteps ==
  {"cpg_group", "cpg_project", "cpg_subproject", "cp_project", "cp_subproject",
   "upd_update", "upd_children"}

WriteFailed == Len(error) = 2 /\ error[1] = "RepositoryError" /\ error[2] \in WriteSteps

\* C2: when a repository write inside the transaction of createProjectGroup,
\* createProject or update fails, the call ends with the transaction rolled
\* back and not committed, the committed table as it was before the call, the
\* caught error thrown unchanged, and no statement issued after the failed
\* one (no retry).
C2_AllOrNothing ==
  (pc = "done" /\ WriteFailed) =>
    /\ op \in {"createProjectGroup", "createProject", "update"}
    /\ txn.opened /\ txn.rolledBack /\ ~txn.committed
    /\ segments = pre
    /\ thrown = error
    /\ ~log[Len(log)].ok
    /\ \A i \in 1..(Len(log) - 1) : log[i].ok

\* C2 witness: the last write of a cascade failed after earlier ones were
\* accepted, and the call has ended.
C2_Witness ==
  /\ pc = "done" /\ WriteFailed /\ Len(log) >= 2
  /\ error[2] \in {"cpg_subproject", "cp_subproject", "upd_children"}

\* C3: once createProject(data) has committed (parentSlug names an existing
\* project group, no grandparentSlug, every create accepted), the committed
\* table is the table before the call followed by exactly two new rows: the
\* project as given, then the subproject counterpart with parentSlug =
\* data.slug, grandparentSlug = data.parentSlug and parentName = data.name.
C3_ProjectCascade ==
  (op = "createProject" /\ txn.committed) =>
    /\ data.parentSlug # None /\ data.grandparentSlug = None
    /\ findBySlugProjectGroup(pre, data.parentSlug)
    /\ AllCreatesInTxn(2)
    /\ log[1].stmt.row = data
    /\ log[2].stmt.row =
         Row(data.slug, data.name, data.slug, data.name, data.parentSlug,
             data.grandparentName)
    /\ segments = pre \o <<log[1].stmt.row, log[2].stmt.row>>

\* C3 witness: a project cascade committed under a group with another slug.
C3_Witness ==
  /\ op = "createProject" /\ pc = "done" /\ thrown = NoError /\ txn.committed
  /\ data.parentSlug # data.slug
  /\ Len(segments) = Len(pre) + 2

IsReferenceError(e) == Len(e) = 3 /\ e[2] = "Project group does not exist."

\* C4: a createProject(data) whose parentSlug names no project group ends
\* with the reference error with the lookup made before the transaction is
\* opened (none is open), no repository create issued and the committed
\* table unchanged.
C4_LookupBeforeTransaction ==
  (op = "createProject" /\ pc = "done" /\ IsReferenceError(thrown)) =>
    /\ ~txn.opened
    /\ log = <<>>
    /\ segments = pre

\* C5: invariant I1 between calls: a project group carries no parent or
\* grandparent field, and a subproject's parentSlug is the slug of an
\* existing project and its grandparentSlug the slug of an existing project
\* group.
C5_HierarchyInvariant ==
  pc = "idle" =>
    \A i \in Ids(segments) :
      /\ isProjectGroup(segments[i]) =>
           segments[i].parentName = None /\ segments[i].grandparentName = None
      /\ isSubproject(segments[i]) =>
           /\ \E j \in Ids(segments) :
                isProject(segments[j]) /\ segments[j].slug = segments[i].parentSlug
           /\ \E k \in Ids(segments) :
                isProjectGroup(segments[k]) /\ segments[k].slug = segments[i].grandparentSlug

Renames(d) == d.name # None \/ d.slug # None

\* C6: once update(id, data) has committed: if the segment is a project
\* group or a project and data carries a name or a slug, the call issued,
\* through the same transaction, the segment's own update and then one
\* updateChildrenBulk for the same id with the new name / slug, and every
\* direct child holds the new values; if the segment is a subproject, no
\* updateChildrenBulk was issued and every other segment is unchanged.
C6_RenamePropagation ==
  (op = "update" /\ txn.committed) =>
    LET seg == pre[target]
        kids == ChildrenOf(pre, seg)
    IN /\ Len(segments) = Len(pre)
       /\ (~isSubproject(seg) /\ Renames(data)) =>
            /\ Len(log) = 2
            /\ \A i \in 1..2 : log[i].ok /\ log[i].via = "txn" /\ log[i].stmt.id = target
                                /\ log[i].stmt.name = data.name
                                /\ log[i].stmt.slug = data.slug
            /\ log[1].stmt.call = "update"
            /\ log[2].stmt.call = "updateChildrenBulk"
            /\ \A k \in kids :
                 /\ data.name # None => segments[k].parentName = data.name
                 /\ data.slug # None => segments[k].parentSlug = data.slug
       /\ isSubproject(seg) =>
            /\ \A i \in 1..Len(log) : log[i].stmt.call # "updateChildrenBulk"
            /\ \A i \in Ids(pre) \ {target} : segments[i] = pre[i]

\* C6 witness: a project group with a child was given a new slug, and the
\* update has committed.
C6_Witness ==
  /\ op = "update" /\ pc = "done" /\ thrown = NoError /\ txn.committed
  /\ isProjectGroup(pre[target])
  /\ ChildrenOf(pre, pre[target]) # {}
  /\ data.slug # None /\ data.slug # pre[target].slug

CascadeComplete ==
  /\ \A i \in 1..Len(log) : log[i].ok
  /\ Len(log) = IF op = "createProjectGroup" THEN 3
                ELSE IF op = "createProject" THEN 2
                ELSE IF ~isSubproject(segment) /\ Renames(data) THEN 2 ELSE 1

\* C7: what a concurrent reader has read during a createProjectGroup,
\* createProject or update call is either the table as it was before the
\* call (none of the call's writes) or, after the commit, that table with
\* every write of the complete cascade applied; never something in between.
C7_ReaderSeesNoneOrAll ==
  (observed.read /\ op \in {"createProjectGroup", "createProject", "update"}) =>
    \/ observed.rows = pre
    \/ /\ txn.committed
       /\ CascadeComplete
       /\ observed.rows = ApplyAll(pre, AcceptedStmts(log))

\* C7 witness: the reader read while two writes of a cascade were pending.
C7_Witness ==
  /\ observed.read /\ observed.pending >= 2
  /\ op \in {"createProjectGroup", "createProject", "update"}

RejectedWith(errors) ==
  /\ pc = "done"
  /\ thrown \in errors
  /\ log = <<>>
  /\ segments = pre
  /\ txn = NoTxn

AcsRejectedWith(c, e) ==
  /\ acs[c].pc = "done"
  /\ acs[c].thrown = e
  /\ ~acs[c].wrote
  /\ customActivityTypes = acs[c].readTypes
  /\ activityChannels = acs[c].readChannels

\* C8: a call with invalid input is never past its validation: it has ended
\* with the validation error, has issued no write, has opened no
\* transaction and has left the stored state as it was.  Invalid are:
\* createProjectGroup with parentSlug or grandparentSlug; createProject with
\* grandparentSlug or without parentSlug; createSubproject without
\* parentSlug or grandparentSlug; createActivityType / updateActivityType
\* with an empty type; updateActivityChannels with an empty channel.
C8_ValidationFailures ==
  /\ (op = "createProjectGroup" /\ (data.parentSlug # None \/ data.grandparentSlug # None))
       => RejectedWith({<<"Error", "Project groups can't have parent or grandparent segments.">>})
  /\ (op = "createProject" /\ (data.grandparentSlug # None \/ data.parentSlug = None))
       => RejectedWith({<<"Error", "Projects can't have grandparent segments.">>,
                        <<"Error", "Missing parentSlug. Projects must belong to a project group.">>})
  /\ (op = "createSubproject" /\ (data.parentSlug = None \/ data.grandparentSlug = None))
       => RejectedWith({<<"Error", "Missing parentSlug. Subprojects must belong to a project.">>,
                        <<"Error", "Missing grandparentSlug. Subprojects must belong to a project group.">>})
  /\ \A c \in Clients :
       /\ (acs[c].method = "createActivityType" /\ acs[c].type = "")
            => AcsRejectedWith(c, <<"Error400",
                 "settings.activityTypes.errors.typeRequiredWhenCreating">>)
       /\ (acs[c].method = "updateActivityType" /\ acs[c].type = "")
            => AcsRejectedWith(c, <<"Error400",
                 "settings.activityTypes.errors.typeRequiredWhenUpdating">>)
       /\ (acs[c].method = "updateActivityChannels" /\ acs[c].channel = "")
            => AcsRejectedWith(c, <<"Error400",
                 "settings.activityChannels.errors.typeRequiredWhenCreating">>)

\* C8 witness: with segments and activity types stored, an updateActivityType
\* call with an empty type has been rejected.
C8_Witness ==
  /\ Len(segments) > 0
  /\ customActivityTypes # <<>>
  /\ acs["c1"].method = "updateActivityType" /\ acs["c1"].type = ""
  /\ acs["c1"].pc = "done"

\* C9: createSubproject(data) with parentSlug and grandparentSlug opens no
\* transaction and issues at most one repository create and nothing else;
\* when it returns, it has issued exactly that one create and the committed
\* table is the table before the call followed by the one new row.
C9_SubprojectSingleCreate ==
  (op = "createSubproject" /\ data.parentSlug # None /\ data.grandparentSlug # None) =>
    /\ ~txn.opened /\ ~txn.committed /\ txn.writes = <<>>
    /\ Len(log) <= 1
    /\ \A i \in 1..Len(log) : log[i].stmt = CreateStmt(data)
    /\ (pc = "done" /\ thrown = NoError) =>
         /\ Len(log) = 1 /\ log[1].ok
         /\ segments = Append(pre, data)
    /\ (Len(log) = 0 \/ ~log[1].ok) => segments = pre

\* C9 witness: a subproject was created next to existing rows and the call
\* has returned.
C9_Witness ==
  /\ op = "createSubproject" /\ pc = "done" /\ thrown = NoError
  /\ Len(pre) >= 3 /\ Len(segments) = Len(pre) + 1

\* C10: invariant I3: in the stored customActivityTypes no typeKey appears
\* under two different platforms.
C10_FlatKeyUnique ==
  \A i, j \in 1..Len(customActivityTypes) :
    i # j => DOMAIN customActivityTypes[i].types \cap DOMAIN customActivityTypes[j].types = {}

\* The (platform, typeKey) entries of a nested configuration.
Entries(custom) ==
  UNION {{<<custom[i].platform, k>> : k \in DOMAIN custom[i].types} :
           i \in 1..Len(custom)}

EntryAt(custom, e) == TypesOf(custom, e[1])[e[2]]

\* C11: createActivityType is idempotent: a call whose lowercased typeKey
\* is already stored under its lowercased platformKey (as after a first call
\* with the same arguments) writes nothing, ends without error, leaves the
\* stored configuration as it was and returns it; and no create call
\* prepares a blob in which an entry that existed has changed.
C11_CreateIdempotent ==
  LET call == acs["c1"] IN
  (call.method = "createActivityType" /\ call.type # "") =>
    /\ (toLowerCase(call.type) \in
          DOMAIN TypesOf(call.readTypes, toLowerCase(call.platform))) =>
         /\ call.pc = "done"
         /\ ~call.wrote
         /\ call.thrown = NoError
         /\ customActivityTypes = call.readTypes
         /\ call.returnedTypes = call.readTypes
    /\ call.pc = "write" =>
         \A e \in Entries(call.readTypes) :
           /\ e \in Entries(call.newTypes)
           /\ EntryAt(call.newTypes, e) = EntryAt(call.readTypes, e)

\* C11 witness: "star" was created under github as "Star"; a second create
\* of the same key under the same platform has ended.
C11_Witness ==
  /\ acs["c1"].method = "createActivityType" /\ acs["c1"].pc = "done"
  /\ acs["c1"].type = "star" /\ acs["c1"].platform = "GitHub"
  /\ "star" \in DOMAIN TypesOf(acs["c1"].readTypes, "github")
  /\ TypesOf(customActivityTypes, "github")["star"].display.default = "Star"

\* The key is stored under some platform of the nested configuration.
StoredSomewhere(custom, k) == \E i \in 1..Len(custom) : k \in DOMAIN custom[i].types

\* The platform the flattened view reports for a stored key: the last one,
\* in key order, that holds it.
OwnerOf(custom, k) ==
  custom[CHOOSE i \in 1..Len(custom) :
           /\ k \in DOMAIN custom[i].types
           /\ \A j \in (i + 1)..Len(custom) : k \notin DOMAIN custom[j].types].platform

\* The call has prepared its blob (and may have stored it).
Prepared(call) == call.pc = "write" \/ call.wrote

\* C12: destroyActivityType(key): with key under no platform the call ends
\* at once without error, writes nothing and returns the configuration it
\* read; with key present, the blob it writes is the one it read without the
\* entry [owning platform][key], every other (platform, typeKey) entry being
\* there with the same settings, and a key held by one platform only is gone
\* from the flattened view.
C12_DestroyFrame ==
  LET call == acs["c1"] IN
  call.method = "destroyActivityType" =>
    /\ ~StoredSomewhere(call.readTypes, call.key) =>
         /\ call.pc = "done"
         /\ ~call.wrote
         /\ call.thrown = NoError
         /\ customActivityTypes = call.readTypes
         /\ call.returnedTypes = call.readTypes
    /\ StoredSomewhere(call.readTypes, call.key) =>
         /\ Prepared(call) \/ call.thrown = RepositoryError("update")
         /\ Prepared(call) =>
              LET gone == <<OwnerOf(call.readTypes, call.key), call.key>> IN
              /\ Entries(call.newTypes) = Entries(call.readTypes) \ {gone}
              /\ \A e \in Entries(call.newTypes) :
                   EntryAt(call.newTypes, e) = EntryAt(call.readTypes, e)
              /\ Cardinality({e \in Entries(call.readTypes) : e[2] = call.key}) = 1
                   => call.key \notin DOMAIN unnestActivityTypes(call.newTypes)
         /\ call.wrote =>
              /\ customActivityTypes = call.newTypes
              /\ call.returnedTypes = call.newTypes

\* C12 witness: "star" was destroyed while "fork" was stored too.
C12_Witness ==
  /\ acs["c1"].method = "destroyActivityType" /\ acs["c1"].wrote
  /\ acs["c1"].key = "star"
  /\ StoredSomewhere(acs["c1"].readTypes, "fork")
  /\ StoredSomewhere(customActivityTypes, "fork")
  /\ ~StoredSomewhere(customActivityTypes, "star")

\* C13: updateActivityType(key, data) with a key the flattened view holds
\* and a non-empty data.type writes a blob with the same (platform, typeKey)
\* pairs, in which every entry but [owning platform][key] has the settings
\* it had, and that entry differs from what it was in its display text
\* only, which is data.type.
C13_UpdateFrame ==
  LET call == acs["c1"] IN
  (/\ call.method = "updateActivityType"
   /\ call.type # ""
   /\ call.key \in DOMAIN unnestActivityTypes(call.readTypes)) =>
    /\ Prepared(call) \/ call.thrown = RepositoryError("update")
    /\ Prepared(call) =>
         LET hit == <<OwnerOf(call.readTypes, call.key), call.key>> IN
         /\ unnestActivityTypes(call.readTypes)[call.key].platform = hit[1]
         /\ Entries(call.newTypes) = Entries(call.readTypes)
         /\ \A e \in Entries(call.readTypes) \ {hit} :
              EntryAt(call.newTypes, e) = EntryAt(call.readTypes, e)
         /\ EntryAt(call.newTypes, hit) =
              [EntryAt(call.readTypes, hit) EXCEPT !.display.default = call.type,
                                                  !.display.short = call.type]
    /\ call.wrote => customActivityTypes = call.newTypes

\* C13 witness: "star", stored under two platforms, was given new text.
C13_Witness ==
  /\ acs["c1"].method = "updateActivityType" /\ acs["c1"].wrote
  /\ acs["c1"].key = "star" /\ acs["c1"].type = "fork"
  /\ Cardinality({e \in Entries(acs["c1"].readTypes) : e[2] = "star"}) = 2
  /\ EntryAt(customActivityTypes, <<"other", "star">>).display.default = "fork"

\* C14: updateActivityType(key, data) with a non-empty data.type ends with
\* the not-found error carrying key exactly when key is stored under no
\* platform of the configuration it read, and then nothing was written.
C14_UpdateNotFound ==
  LET call == acs["c1"]
      notFound == <<"Error400", "settings.activityTypes.errors.notFound", call.key>>
  IN
  (call.method = "updateActivityType" /\ call.type # "") =>
    /\ (call.thrown = notFound) <=> ~StoredSomewhere(call.readTypes, call.key)
    /\ call.thrown = notFound =>
         /\ call.pc = "done"
         /\ ~call.wrote
         /\ customActivityTypes = call.readTypes

\* C14 witness: "fork" was not found in a configuration that holds "star".
C14_Witness ==
  /\ acs["c1"].method = "updateActivityType" /\ acs["c1"].key = "fork"
  /\ acs["c1"].thrown =
       <<"Error400", "settings.activityTypes.errors.notFound", "fork">>
  /\ StoredSomewhere(customActivityTypes, "star")

NoDuplicates(list) ==
  \A i, j \in 1..Len(list) : list[i] = list[j] => i = j

Contains(list, x) == \E i \in 1..Len(list) : list[i] = x

\* C15: starting from the empty channel map, every stored channel list is
\* free of duplicates; an updateActivityChannels call with a non-empty
\* channel leaves the platform's list as it is when the channel is in it and
\* otherwise appends the channel at the end (so the order is that of first
\* insertion), and leaves every other platform's list as it is.
C15_ChannelLists ==
  LET call == acs["c1"] IN
  /\ \A p \in DOMAIN activityChannels : NoDuplicates(activityChannels[p])
  /\ (call.method = "updateActivityChannels" /\ call.channel # "") =>
       /\ Prepared(call) \/ call.thrown = RepositoryError("update")
       /\ Prepared(call) =>
            LET old == IF call.platform \in DOMAIN call.readChannels
                       THEN call.readChannels[call.platform] ELSE <<>>
            IN
            /\ DOMAIN call.newChannels = DOMAIN call.readChannels \cup {call.platform}
            /\ call.newChannels[call.platform] =
                 IF Contains(old, call.channel) THEN old ELSE Append(old, call.channel)
            /\ \A q \in DOMAIN call.readChannels \ {call.platform} :
                 call.newChannels[q] = call.readChannels[q]
       /\ call.wrote => activityChannels = call.newChannels

\* C15 witness: "x" was sent again to a platform that lists "x" then "y".
C15_Witness ==
  /\ acs["c1"].method = "updateActivityChannels" /\ acs["c1"].wrote
  /\ acs["c1"].platform = "github" /\ acs["c1"].channel = "x"
  /\ acs["c1"].readChannels = [p \in {"github"} |-> <<"x", "y">>]
  /\ activityChannels = [p \in {"github"} |-> <<"x", "y">>]

\* C16: flatten is a left-inverse of the nested insert: in the blob a
\* createActivityType call has built by inserting its settings at
\* [platformKey][typeKey], the flattened view maps typeKey to those settings
\* extended with platformKey.
C16_FlattenAfterInsert ==
  LET call == acs["c1"]
      typeKey == toLowerCase(call.type)
      platformKey == toLowerCase(call.platform)
  IN
  (call.method = "createActivityType" /\ Prepared(call)) =>
    /\ EntryAt(call.newTypes, <<platformKey, typeKey>>) = NewSettings(call.type)
    /\ typeKey \in DOMAIN unnestActivityTypes(call.newTypes)
    /\ unnestActivityTypes(call.newTypes)[typeKey] =
         [display |-> NewSettings(call.type).display,
          isContribution |-> NewSettings(call.type).isContribution,
          platform |-> platformKey]

\* The blob a call computes and stores.
Kind(call) == IF call.method = "updateActivityChannels" THEN "channels" ELSE "types"

\* Both calls read the blobs before either stored its own, and both have
\* stored.
BothReadThenWrote ==
  \A c \in Clients : acs[c].pc = "done" /\ acs[c].wrote /\ ~acs[c].sawWrite

\* C17: when two activity-configuration mutations both read before either
\* writes, then after both writes each stored blob is exactly the whole blob
\* of the call that wrote it last: of two calls on the same blob the later
\* writer's blob is stored as it is (the earlier writer's change is in it
\* only if the later call made it too).
C17_LastWriterWins ==
  BothReadThenWrote =>
    \A c \in Clients :
      (\A d \in Clients \ {c} : Kind(acs[d]) = Kind(acs[c]) => acs[d].writeNo < acs[c].writeNo)
        => IF Kind(acs[c]) = "types"
           THEN customActivityTypes = acs[c].newTypes
           ELSE activityChannels = acs[c].newChannels

\* C17 witness: two creates of different keys both read the empty
\* configuration; c2 wrote last and c1's key is lost.
C17_Witness ==
  /\ BothReadThenWrote
  /\ acs["c1"].method = "createActivityType" /\ acs["c1"].type = "star"
  /\ acs["c2"].method = "createActivityType" /\ acs["c2"].type = "fork"
  /\ acs["c1"].writeNo = 1 /\ acs["c2"].writeNo = 2
  /\ customActivityTypes = acs["c2"].newTypes
  /\ ~StoredSomewhere(customActivityTypes, "star")

\* C18: after a committed update that carries a name or a slug for a
\* project group, every project under the group holds the new values as
\* parentName / parentSlug and every subproject under it holds them as
\* grandparentName / grandparentSlug.
C18_DescendantsRenamed ==
  (op = "update" /\ txn.committed /\ isProjectGroup(pre[target]) /\ Renames(data)) =>
    \A i \in Ids(pre) \ {target} :
      /\ (isProject(pre[i]) /\ pre[i].parentSlug = pre[target].slug) =>
           /\ data.name # None => segments[i].parentName = data.name
           /\ data.slug # None => segments[i].parentSlug = data.slug
      /\ (isSubproject(pre[i]) /\ pre[i].grandparentSlug = pre[target].slug) =>
           /\ data.name # None => segments[i].grandparentName = data.name
           /\ data.slug # None => segments[i].grandparentSlug = data.slug

\* C19: an operation that has returned or thrown leaves no transaction
\* open: the transaction it opened has been committed or rolled back.
C19_TransactionResolved ==
  (pc = "done" /\ txn.opened) => (txn.committed \/ txn.rolledBack)

\* C20: rollbackTransaction is never invoked on a transaction whose
\* commitTransaction has succeeded.
C20_NoRollbackAfterCommit == ~(txn.committed /\ txn.rolledBack)

====
